---- MODULE Spec2Model ----
(***************************************************************************)
(* Caption pipeline of lzy.ai: temporal grouping of word timestamps        *)
(* (services/temporal_captions.py), generation of the ASS overlay track    *)
(* and font fitting (services/captions.py); gap detection                  *)
(* (services/simple_editor.py), silence removal (services/shorts.py) and   *)
(* best-of compilation (services/bestof.py), with the temporary files of   *)
(* the requests, concurrent caption overlay requests and the blocking      *)
(* calls to the transcription and moment-detection services.               *)
(*                                                                         *)
(* Times are integers in centiseconds, the resolution of the ASS time      *)
(* format written by format_time.  Percentages and scale factors are       *)
(* integers in percent.  int(x) of Python is truncation toward zero.       *)
(***************************************************************************)
EXTENDS Integers, Sequences, FiniteSets, TLC

VARIABLES words, max_words_per_group, silence_threshold, caption_options, pc,
          result, ass,
          fit_args, fitted_size,
          min_gap_duration, padding, video_duration, gaps, segments,
          gaps_removed, rs_result, rs_calls, rs_files,
          moments, use_crossfade, cb_result, cb_calls, cb_files,
          ov_pc, ov_files,
          ext_kind, ext_pc, ext_service, ext_result

captionVars == <<max_words_per_group, silence_threshold, caption_options, pc,
                 result, ass>>

fitVars == <<fit_args, fitted_size>>

silenceVars == <<min_gap_duration, padding, video_duration, gaps, segments,
                 gaps_removed, rs_result, rs_calls, rs_files>>

bestofVars == <<moments, use_crossfade, cb_result, cb_calls, cb_files>>

requestVars == <<ov_pc, ov_files>>

callVars == <<ext_kind, ext_pc, ext_service, ext_result>>

vars == <<words, captionVars, fitVars, silenceVars, bestofVars, requestVars, callVars>>

(* ------------------------------ bounds --------------------------------- *)
MaxLen == 3          \* longest word sequence
MaxTime == 3         \* largest word timestamp (centiseconds)
MaxGroupSize == 3    \* largest max_words_per_group
MaxThreshold == 1    \* largest numeric silence_threshold
MaxTextLen == 3      \* longest measured text (characters)
MaxFontSize == 4     \* largest target / minimum font size
MaxWidth == 4        \* largest available width
MaxMinGap == 2       \* largest min_gap_duration
MaxPadding == 2      \* largest padding
MaxMoments == 2      \* longest list of moments
MaxOrder == 1        \* largest order of a moment
NumRequests == 2     \* concurrent caption overlay requests
MaxTempNames == 6    \* names the temporary directory can hold

(* Python's None, as passed for silence_threshold; numeric thresholds are >= 0 *)
None == -1

(* ------------------------- helper arithmetic --------------------------- *)
\* Python int(a / b) for b > 0: truncation toward zero
TruncDiv(a, b) == IF a >= 0 THEN a \div b ELSE -((-a) \div b)

Max2(a, b) == IF a >= b THEN a ELSE b

(* ---------------- services/captions.py: font fitting ------------------- *)
\* measure_text_width: the font's own measure when the font file can be
\* loaded (metrics = the measured width), the estimate
\* int(len(text) * font_size * 0.6) otherwise (metrics = None)
measure_text_width(text_len, metrics, font_size) ==
    IF metrics # None THEN metrics ELSE TruncDiv(text_len * font_size * 6, 10)

\* variant of calculate_fit_font_size: the scaled size is returned without
\* the clamp to min_size
calculate_fit_font_size_noClamp(text_len, metrics, target_size, max_width, min_size) ==
    LET width == measure_text_width(text_len, metrics, target_size) IN
    IF width <= max_width THEN target_size
    ELSE TruncDiv(target_size * max_width, width)

\* calculate_fit_font_size: target_size when the text fits, otherwise
\* int(target_size * max_width / width) clamped from below to min_size
calculate_fit_font_size(text_len, metrics, target_size, max_width, min_size) ==
    LET width == measure_text_width(text_len, metrics, target_size) IN
    IF width <= max_width THEN target_size
    ELSE Max2(TruncDiv(target_size * max_width, width), min_size)

(* ------------------- services/temporal_captions.py --------------------- *)
\* variant of _build_caption_group: the end is taken from the first word
_build_caption_group_firstEnd(ws) ==
    [ text  |-> [k \in 1..Len(ws) |-> ws[k].word],
      words |-> [k \in 1..Len(ws) |->
                    [word |-> ws[k].word, start |-> ws[k].start,
                     end |-> ws[k].end, index_in_group |-> k - 1]],
      start |-> ws[1].start,
      end   |-> ws[1].end ]

\* _build_caption_group: words with their index in the group, the joined
\* text, the first word's start and the last word's end
_build_caption_group(ws) ==
    [ text  |-> [k \in 1..Len(ws) |-> ws[k].word],
      words |-> [k \in 1..Len(ws) |->
                    [word |-> ws[k].word, start |-> ws[k].start,
                     end |-> ws[k].end, index_in_group |-> k - 1]],
      start |-> ws[1].start,
      end   |-> ws[Len(ws)].end ]

\* variant of SilenceBreak: the comparison's operands swapped
SilenceBreak_swapped(prev, word, thr) == thr > word.start - prev.end

\* variant of SilenceBreak: a gap equal to the threshold forces a new group
SilenceBreak_nonStrict(prev, word, thr) == word.start - prev.end >= thr

\* the silence test of the loop body: gap = word.start - previous_word.end,
\* a new group is forced when gap > silence_threshold
SilenceBreak(prev, word, thr) == word.start - prev.end > thr

\* variant of GroupStep: on a silence break the open group is reset without
\* being appended to the captions
GroupStep_dropOnSilence(st, word, maxw, thr) ==
    LET cur == st.current_group IN
    IF cur # <<>> /\ thr = None
    THEN [st EXCEPT !.error = "TypeError"]
    ELSE
      LET silence == cur # <<>> /\ SilenceBreak(cur[Len(cur)], word, thr)
          cur1  == IF silence THEN <<>> ELSE cur
          full  == Len(cur1) >= maxw
          caps2 == IF full THEN Append(st.captions, _build_caption_group(cur1))
                           ELSE st.captions
          cur2  == IF full THEN <<>> ELSE cur1
      IN [error |-> "none", captions |-> caps2,
          current_group |-> Append(cur2, word)]

\* variant of GroupStep: the capacity test is > instead of >=
GroupStep_capacityOffByOne(st, word, maxw, thr) ==
    LET cur == st.current_group IN
    IF cur # <<>> /\ thr = None
    THEN [st EXCEPT !.error = "TypeError"]
    ELSE
      LET silence == cur # <<>> /\ SilenceBreak(cur[Len(cur)], word, thr)
          caps1 == IF silence THEN Append(st.captions, _build_caption_group(cur))
                              ELSE st.captions
          cur1  == IF silence THEN <<>> ELSE cur
          full  == Len(cur1) > maxw
          caps2 == IF full THEN Append(caps1, _build_caption_group(cur1))
                           ELSE caps1
          cur2  == IF full THEN <<>> ELSE cur1
      IN [error |-> "none", captions |-> caps2,
          current_group |-> Append(cur2, word)]

\* one iteration of the for loop of group_words_by_temporal_proximity;
\* st = [error, captions, current_group].  With a None threshold the
\* comparison `gap > silence_threshold` raises TypeError.
GroupStep(st, word, maxw, thr) ==
    LET cur == st.current_group IN
    IF cur # <<>> /\ thr = None
    THEN [st EXCEPT !.error = "TypeError"]
    ELSE
      LET silence == cur # <<>> /\ SilenceBreak(cur[Len(cur)], word, thr)
          caps1 == IF silence THEN Append(st.captions, _build_caption_group(cur))
                              ELSE st.captions
          cur1  == IF silence THEN <<>> ELSE cur
          full  == Len(cur1) >= maxw
          caps2 == IF full THEN Append(caps1, _build_caption_group(cur1))
                           ELSE caps1
          cur2  == IF full THEN <<>> ELSE cur1
      IN [error |-> "none", captions |-> caps2,
          current_group |-> Append(cur2, word)]

\* the for loop from word i on; an exception leaves the loop
RECURSIVE GroupLoop(_, _, _, _, _)
GroupLoop(ws, i, st, maxw, thr) ==
    IF i > Len(ws) \/ st.error # "none" THEN st
    ELSE GroupLoop(ws, i + 1, GroupStep(st, ws[i], maxw, thr), maxw, thr)

\* group_words_by_temporal_proximity: [error, captions]
group_words_by_temporal_proximity(ws, maxw, thr) ==
    IF ws = <<>> THEN [error |-> "none", captions |-> <<>>]
    ELSE
      LET st == GroupLoop(ws, 1, [error |-> "none", captions |-> <<>>,
                                  current_group |-> <<>>], maxw, thr)
      IN IF st.error # "none" THEN [error |-> st.error, captions |-> <<>>]
         ELSE [error |-> "none",
               captions |-> IF st.current_group # <<>>
                            THEN Append(st.captions, _build_caption_group(st.current_group))
                            ELSE st.captions]

(* ------------------------ services/captions.py ------------------------- *)
\* group_words_into_captions delegates to the temporal proximity algorithm
group_words_into_captions(ws, words_per_group, thr) ==
    group_words_by_temporal_proximity(ws, words_per_group, thr)

\* defaults of generate_ass_subtitles' parameters
DefaultOptions ==
    [ video_height |-> 1920, font_size |-> 56, highlight_scale |-> 130,
      position_y |-> 85, text_style |-> "normal", animation_style |-> "both",
      outline_enabled |-> TRUE, outline_width |-> 3, shadow_enabled |-> TRUE,
      background_enabled |-> FALSE, background_opacity |-> 50,
      caption_font_sizes |-> <<>> ]

\* variant of PositionStyle: the bottom margin is measured from the top
PositionStyle_marginFromTop(position_y, video_height) ==
    IF position_y <= 33
    THEN [alignment |-> 8, margin_v |-> TruncDiv(video_height * position_y, 100)]
    ELSE IF position_y <= 66
    THEN [alignment |-> 5, margin_v |-> 0]
    ELSE [alignment |-> 2, margin_v |-> TruncDiv(video_height * position_y, 100)]

\* alignment and MarginV from position_y (thirds of the canvas)
PositionStyle(position_y, video_height) ==
    IF position_y <= 33
    THEN [alignment |-> 8, margin_v |-> TruncDiv(video_height * position_y, 100)]
    ELSE IF position_y <= 66
    THEN [alignment |-> 5, margin_v |-> 0]
    ELSE [alignment |-> 2, margin_v |-> TruncDiv(video_height * (100 - position_y), 100)]

\* scaled_outline / actual_outline
ScaledOutline(outline_enabled, outline_width, font_size) ==
    IF outline_enabled THEN Max2(outline_width, TruncDiv(font_size, 14)) ELSE 0

\* opacities in -50..200 at which the binary floating-point product
\* 255 * (1 - background_opacity / 100) falls just short of the whole number
\* it equals exactly (1 - 80/100 is 0.19999999999999996)
FloatShort == {80, 120, 140}

\* int(255 * (1 - background_opacity / 100)), before hex formatting; no
\* test of the range of background_opacity precedes it
BgAlphaValue(background_opacity) ==
    LET exact == TruncDiv(255 * (100 - background_opacity), 100) IN
    IF background_opacity \notin FloatShort THEN exact
    ELSE IF exact > 0 THEN exact - 1 ELSE exact + 1

\* format_time: seconds -> H:MM:SS.cc, as its three fields (secs in centiseconds)
format_time(t) ==
    [ hours   |-> t \div 360000,
      minutes |-> (t % 360000) \div 6000,
      secs    |-> t % 6000 ]

\* font size of caption caption_idx (0-based): its entry of
\* caption_font_sizes when there is one, the base font size otherwise
CaptionFontSize(opts, caption_idx) ==
    IF opts.caption_font_sizes # <<>> /\ caption_idx < Len(opts.caption_font_sizes)
    THEN opts.caption_font_sizes[caption_idx + 1]
    ELSE opts.font_size

\* the override block put before word j of a line whose active word is i
TextPart(word, active, opts, caption_font_size) ==
    LET caption_highlight_size == TruncDiv(caption_font_size * opts.highlight_scale, 100)
        scale == opts.highlight_scale
        word_text == [text |-> word.word, upper |-> opts.text_style = "uppercase"]
    IN IF active
       THEN CASE opts.animation_style = "scale" ->
                   [fs |-> caption_highlight_size, colour |-> "primary",
                    fscx |-> scale, fscy |-> scale, blur |-> 0, word |-> word_text]
              [] opts.animation_style = "color" ->
                   [fs |-> caption_font_size, colour |-> "highlight",
                    fscx |-> 100, fscy |-> 100, blur |-> 0, word |-> word_text]
              [] opts.animation_style = "glow" ->
                   [fs |-> caption_font_size, colour |-> "highlight",
                    fscx |-> 100, fscy |-> 100, blur |-> 2, word |-> word_text]
              [] OTHER ->
                   [fs |-> caption_highlight_size, colour |-> "highlight",
                    fscx |-> scale, fscy |-> scale, blur |-> 0, word |-> word_text]
       ELSE [fs |-> caption_font_size, colour |-> "primary",
             fscx |-> 100, fscy |-> 100, blur |-> 0, word |-> word_text]

\* variant of WordEnd: every line ends with its own word
WordEnd_ownEnd(caption, i) == caption.words[i].end

\* variant of WordEnd: every line stays until the group's end
WordEnd_groupEnd(caption, i) == caption.end

\* end of the line of word i (1-based) of a caption: the next word's start,
\* or the group's end for the last word
WordEnd(caption, i) ==
    IF i < Len(caption.words) THEN caption.words[i + 1].start ELSE caption.end

\* the Dialogue line of word i of a caption
DialogueLine(caption, i, opts, caption_font_size) ==
    [ layer |-> 0,
      start |-> format_time(caption.words[i].start),
      end   |-> format_time(WordEnd(caption, i)),
      style |-> "Default",
      text  |-> [j \in 1..Len(caption.words) |->
                    TextPart(caption.words[j], j = i, opts, caption_font_size)] ]

\* variant of CaptionLines: the lines of a caption are emitted last word first
CaptionLines_reversed(caption, caption_idx, opts) ==
    [i \in 1..Len(caption.words) |->
        DialogueLine(caption, Len(caption.words) + 1 - i, opts,
                     CaptionFontSize(opts, caption_idx))]

\* the Dialogue lines of one caption, one per word, in word order
CaptionLines(caption, caption_idx, opts) ==
    [i \in 1..Len(caption.words) |->
        DialogueLine(caption, i, opts, CaptionFontSize(opts, caption_idx))]

\* the outer loop over the captions from caption g (1-based) on
RECURSIVE EventLines(_, _, _)
EventLines(captions, g, opts) ==
    IF g > Len(captions) THEN <<>>
    ELSE CaptionLines(captions[g], g - 1, opts) \o EventLines(captions, g + 1, opts)

\* generate_ass_subtitles: the header's style fields and the Dialogue lines
generate_ass_subtitles(captions, opts) ==
    LET pos == PositionStyle(opts.position_y, opts.video_height)
        actual_outline == ScaledOutline(opts.outline_enabled, opts.outline_width,
                                        opts.font_size)
        actual_shadow == IF opts.shadow_enabled THEN 3 ELSE 0
        border_style == IF opts.background_enabled THEN 3 ELSE 1
        back_alpha == IF opts.background_enabled
                      THEN BgAlphaValue(opts.background_opacity) ELSE 128
    IN [ play_res_y |-> opts.video_height,
         default_style |->
            [fontsize |-> opts.font_size, back_alpha |-> back_alpha,
             border_style |-> border_style, outline |-> actual_outline,
             shadow |-> actual_shadow, alignment |-> pos.alignment,
             margin_v |-> pos.margin_v],
         highlight_style |->
            [fontsize |-> TruncDiv(opts.font_size * opts.highlight_scale, 100),
             back_alpha |-> back_alpha,
             border_style |-> border_style, outline |-> actual_outline + 1,
             shadow |-> actual_shadow, alignment |-> pos.alignment,
             margin_v |-> pos.margin_v],
         lines |-> EventLines(captions, 1, opts) ]

(* -------------- services/simple_editor.py: gap detection --------------- *)
\* variant of GapQualifies: strict comparison
GapQualifies_strict(gap_duration, min_gap) == gap_duration > min_gap

\* the test of detect_gaps: gap_duration >= min_gap_duration
GapQualifies(gap_duration, min_gap) == gap_duration >= min_gap

\* the loop of detect_gaps over the pairs (i, i+1), 1-based, from pair i on
RECURSIVE DetectGapsFrom(_, _, _)
DetectGapsFrom(ws, i, min_gap) ==
    IF i >= Len(ws) THEN <<>>
    ELSE
      LET gap_start == ws[i].end
          gap_end == ws[i + 1].start
          gap_duration == gap_end - gap_start
      IN (IF GapQualifies(gap_duration, min_gap)
          THEN << [start |-> gap_start, end |-> gap_end, duration |-> gap_duration] >>
          ELSE <<>>) \o DetectGapsFrom(ws, i + 1, min_gap)

\* detect_gaps
detect_gaps(ws, min_gap) == DetectGapsFrom(ws, 1, min_gap)

(* --------------- services/shorts.py: silence removal ------------------- *)
\* variant of SegmentSplit: every positive gap splits
SegmentSplit_anyGap(gap, min_gap) == gap > 0

\* the split test of remove_silence_from_video: gap > min_gap_duration
SegmentSplit(gap, min_gap) == gap > min_gap

\* one iteration of the loop over the words (i is 1-based);
\* st = [segments, gaps_removed]
SegmentStep(st, ws, i, min_gap, pad) ==
    LET word == ws[i]
        word_start == Max2(0, word.start - pad)
        word_end == word.end + pad
        new_seg == [start |-> word_start, end |-> word_end]
    IN IF i = 1
       THEN [st EXCEPT !.segments = Append(@, new_seg)]
       ELSE
         LET prev_word == ws[i - 1]
             gap == word.start - prev_word.end
         IN IF SegmentSplit(gap, min_gap)
            THEN [segments |-> Append(st.segments, new_seg),
                  gaps_removed |-> Append(st.gaps_removed,
                      [start |-> prev_word.end, end |-> word.start, duration |-> gap])]
            ELSE [st EXCEPT !.segments[Len(st.segments)].end = word_end]

\* the loop over the words from word i on
RECURSIVE SegmentLoop(_, _, _, _, _)
SegmentLoop(st, ws, i, min_gap, pad) ==
    IF i > Len(ws) THEN st
    ELSE SegmentLoop(SegmentStep(st, ws, i, min_gap, pad), ws, i + 1, min_gap, pad)

\* step 2 of remove_silence_from_video: segments to keep and gaps to remove
BuildSegments(ws, min_gap, pad) ==
    SegmentLoop([segments |-> <<>>, gaps_removed |-> <<>>], ws, 1, min_gap, pad)

\* sum of the durations of a list of gaps
RECURSIVE TotalDuration(_)
TotalDuration(gs) == IF gs = <<>> THEN 0 ELSE gs[1].duration + TotalDuration(Tail(gs))

\* the video handed to remove_silence_from_video
OriginalVideo == [kind |-> "original", parts |-> <<>>]

\* the ffmpeg cut requested for a segment: -ss start -t (end - start)
CutCall(seg) == [op |-> "cut", start |-> seg.start, duration |-> seg.end - seg.start]

\* a temporary file or directory of a request
TempFile(kind, index) == [kind |-> kind, index |-> index]

\* the temporary files a request created and those left when it returned
Files(created, deleted) == [created |-> created, left |-> created \ deleted]

\* extract_audio_from_video: the video and the audio file are created, then
\* ffmpeg runs; outcome is "ok", "failed" (ffmpeg returns an error: both
\* files are unlinked) or "raised" (running ffmpeg raises: the handler
\* returns the error and unlinks nothing).  On "ok" the audio file is left
\* to the caller.
extract_audio_from_video(outcome) ==
    LET video == TempFile("extract_video", 0)
        audio == TempFile("audio", 0)
        call == << [op |-> "extract_audio", start |-> 0, duration |-> 0] >>
    IN
    IF outcome = "raised"
    THEN [error |-> "Error extracting audio", calls |-> call,
          created |-> {video, audio}, deleted |-> {}]
    ELSE IF outcome = "failed"
    THEN [error |-> "Audio extraction failed", calls |-> call,
          created |-> {video, audio}, deleted |-> {video, audio}]
    ELSE [error |-> "", calls |-> call,
          created |-> {video, audio}, deleted |-> {video}]

\* remove_silence_from_video; env holds what the external steps do:
\* extract ("ok", "failed" or "raised"), transcribe ("ok", "no_key" or
\* "failed"), fail_cut (index of the first segment whose cut fails or
\* raises, 0 for none), concat_ok.  Returns the response, the external
\* steps invoked, the segments and gaps computed, and the temporary files.
remove_silence_from_video(ws, min_gap, pad, env) ==
    LET none == [segments |-> <<>>, gaps_removed |-> <<>>]
        audio == extract_audio_from_video(env.extract)
        extract == audio.calls
        whisper == << [op |-> "transcribe", start |-> 0, duration |-> 0] >>
        \* the finally of the transcription unlinks the audio file
        heard == Files(audio.created, audio.deleted \cup {TempFile("audio", 0)})
    IN
    IF audio.error # ""
    THEN [response |-> [status |-> "error", error |-> audio.error],
          calls |-> extract, built |-> none,
          files |-> Files(audio.created, audio.deleted)]
    ELSE IF env.transcribe = "no_key"
    THEN [response |-> [status |-> "error", error |-> "OPENAI_API_KEY not configured"],
          calls |-> extract, built |-> none, files |-> heard]
    ELSE IF env.transcribe = "failed"
    THEN [response |-> [status |-> "error", error |-> "Whisper transcription failed"],
          calls |-> extract \o whisper, built |-> none, files |-> heard]
    ELSE IF ws = <<>>
    THEN [response |-> [status |-> "success", video_data |-> OriginalVideo,
                        silence_removed |-> FALSE,
                        message |-> "No speech detected in video"],
          calls |-> extract \o whisper, built |-> none, files |-> heard]
    ELSE
      LET built == BuildSegments(ws, min_gap, pad)
          n == Len(built.segments)
          \* the files of the cut phase when k segment files were created,
          \* with or without the output file, and what the finally unlinks
          cutFiles(k, with_output) ==
              LET segment_files == {TempFile("segment", i) : i \in 1..k}
                  output == IF with_output THEN {TempFile("output", 0)} ELSE {}
                  made == {TempFile("input", 0), TempFile("concat_list", 0)}
                             \cup segment_files \cup output
              IN Files(heard.created \cup made,
                       (heard.created \ heard.left)
                          \cup {TempFile("input", 0), TempFile("concat_list", 0)}
                          \cup segment_files \cup output)
      IN IF Len(built.gaps_removed) = 0
         THEN [response |-> [status |-> "success", video_data |-> OriginalVideo,
                             silence_removed |-> FALSE,
                             message |-> "No significant gaps found to remove"],
               calls |-> extract \o whisper, built |-> built, files |-> heard]
         ELSE IF env.fail_cut \in 1..n
         THEN [response |-> [status |-> "error",
                             error |-> "Error removing silence: Failed to extract segment",
                             segment |-> env.fail_cut - 1],
               calls |-> extract \o whisper \o
                         [k \in 1..env.fail_cut |-> CutCall(built.segments[k])],
               built |-> built, files |-> cutFiles(env.fail_cut, FALSE)]
         ELSE
           LET cuts == [k \in 1..n |-> CutCall(built.segments[k])]
               concat == << [op |-> "concat", start |-> 0, duration |-> n] >>
           IN IF ~env.concat_ok
              THEN [response |-> [status |-> "error",
                                  error |-> "Error removing silence: Failed to concatenate segments"],
                    calls |-> extract \o whisper \o cuts \o concat, built |-> built,
                    files |-> cutFiles(n, TRUE)]
              ELSE [response |-> [status |-> "success",
                                  video_data |-> [kind |-> "concat", parts |-> cuts],
                                  silence_removed |-> TRUE,
                                  gaps_removed |-> Len(built.gaps_removed),
                                  time_removed |-> TotalDuration(built.gaps_removed),
                                  segments_kept |-> n],
                    calls |-> extract \o whisper \o cuts \o concat, built |-> built,
                    files |-> cutFiles(n, TRUE)]

(* ------------------------ best-of compilation -------------------------- *)
\* parse_timestamp_to_seconds: a timestamp is the sequence of its
\* colon-separated numbers, <<MM, SS>> or <<HH, MM, SS>>; anything else is 0
parse_timestamp_to_seconds(timestamp) ==
    IF Len(timestamp) = 2 THEN timestamp[1] * 60 + timestamp[2]
    ELSE IF Len(timestamp) = 3
         THEN timestamp[1] * 3600 + timestamp[2] * 60 + timestamp[3]
    ELSE 0

\* the sort key x.get('order', 0); an absent order is None
OrderKey(moment) == IF moment.order = None THEN 0 ELSE moment.order

\* variant: a moment is placed before the moments of equal order
InsertByOrder_beforeEqual(moment, sorted) ==
    LET before == SelectSeq(sorted, LAMBDA x : OrderKey(x) < OrderKey(moment))
        after == SelectSeq(sorted, LAMBDA x : OrderKey(x) >= OrderKey(moment))
    IN before \o <<moment>> \o after

\* a moment is placed after every sorted moment whose order is not larger
InsertByOrder(moment, sorted) ==
    LET before == SelectSeq(sorted, LAMBDA x : OrderKey(x) <= OrderKey(moment))
        after == SelectSeq(sorted, LAMBDA x : OrderKey(x) > OrderKey(moment))
    IN before \o <<moment>> \o after

\* sorted(moments, key=lambda x: x.get('order', 0)): a stable sort
RECURSIVE SortedMoments(_)
SortedMoments(ms) ==
    IF ms = <<>> THEN <<>>
    ELSE InsertByOrder(ms[Len(ms)], SortedMoments(SubSeq(ms, 1, Len(ms) - 1)))

\* the clip a cut of the moment writes
ClipOf(moment) ==
    [start |-> parse_timestamp_to_seconds(moment.start_time),
     duration |-> parse_timestamp_to_seconds(moment.end_time)
                    - parse_timestamp_to_seconds(moment.start_time)]

\* the ffmpeg cut clip_segment requests, with what ffmpeg answers
ClipCall(moment, outcome) ==
    [op |-> "cut", start |-> ClipOf(moment).start, duration |-> ClipOf(moment).duration,
     outcome |-> outcome]

\* an external step on n clips, with what it answers
StepCall(op, n, outcome) == [op |-> op, start |-> 0, duration |-> n, outcome |-> outcome]

\* the answer of a step that succeeds or fails
Outcome(ok) == IF ok THEN "ok" ELSE "failed"

\* clip_segment: ffmpeg_ok is the outcome of the ffmpeg cut
clip_segment(moment, ffmpeg_ok) ==
    IF ClipOf(moment).duration <= 0
    THEN [error |-> "End time must be after start time", calls |-> <<>>]
    ELSE IF ~ffmpeg_ok
    THEN [error |-> "ffmpeg error", calls |-> <<ClipCall(moment, "failed")>>]
    ELSE [error |-> "", calls |-> <<ClipCall(moment, "ok")>>]

\* _concatenate_direct: the concat demuxer on the ordered clips
_concatenate_direct(clips, env) ==
    IF ~env.direct_ok
    THEN [error |-> "ffmpeg concat error",
          calls |-> <<StepCall("concat_direct", Len(clips), "failed")>>,
          output |-> [kind |-> "none", parts |-> <<>>]]
    ELSE [error |-> "", calls |-> <<StepCall("concat_direct", Len(clips), "ok")>>,
          output |-> [kind |-> "concat", parts |-> clips]]

\* _concatenate_with_crossfade: every clip is probed (a failed probe counts
\* as 10 seconds, an unparsable answer raises), then the blend is run, and
\* a failed blend falls back to _concatenate_direct
_concatenate_with_crossfade(clips, env) ==
    LET probes == [k \in 1..Len(clips) |-> StepCall("probe", 1, env.probe)]
        xfade == <<StepCall("xfade", Len(clips), Outcome(env.xfade_ok))>>
    IN
    IF env.probe = "garbage"
    THEN [error |-> "Error concatenating clips",
          calls |-> <<StepCall("probe", 1, "garbage")>>,
          output |-> [kind |-> "none", parts |-> <<>>]]
    ELSE IF ~env.xfade_ok
    THEN LET direct == _concatenate_direct(clips, env) IN
         [direct EXCEPT !.calls = probes \o xfade \o @]
    ELSE [error |-> "", calls |-> probes \o xfade,
          output |-> [kind |-> "xfade", parts |-> clips]]

\* variant: a single clip goes through the concatenation like any other list
concatenate_clips_noSingleCase(clips, crossfade, env) ==
    IF clips = <<>>
    THEN [error |-> "No clips provided", calls |-> <<>>,
          output |-> [kind |-> "none", parts |-> <<>>]]
    ELSE IF crossfade THEN _concatenate_with_crossfade(clips, env)
    ELSE _concatenate_direct(clips, env)

\* concatenate_clips: a single clip is copied to the output path
concatenate_clips(clips, crossfade, env) ==
    IF clips = <<>>
    THEN [error |-> "No clips provided", calls |-> <<>>,
          output |-> [kind |-> "none", parts |-> <<>>]]
    ELSE IF Len(clips) = 1
    THEN IF ~env.copy_ok
         THEN [error |-> "raised", calls |-> <<StepCall("copy", 1, "failed")>>,
               output |-> [kind |-> "none", parts |-> <<>>]]
         ELSE [error |-> "", calls |-> <<StepCall("copy", 1, "ok")>>,
               output |-> [kind |-> "cut", parts |-> clips]]
    ELSE IF crossfade THEN _concatenate_with_crossfade(clips, env)
    ELSE _concatenate_direct(clips, env)

\* variant: a failed cut is skipped and the loop goes on
RECURSIVE ClipLoop_skipFailed(_, _, _, _)
ClipLoop_skipFailed(sorted, i, st, env) ==
    IF i > Len(sorted) THEN st
    ELSE LET r == clip_segment(sorted[i], env.fail_cut # i) IN
         ClipLoop_skipFailed(sorted, i + 1,
             [st EXCEPT !.calls = @ \o r.calls,
                        !.clips = IF r.error # "" THEN @ ELSE @ \o <<ClipOf(sorted[i])>>],
             env)

\* the clip loop of create_bestof_compilation from the i-th sorted moment:
\* the first failing clip_segment ends it
RECURSIVE ClipLoop(_, _, _, _)
ClipLoop(sorted, i, st, env) ==
    IF i > Len(sorted) THEN st
    ELSE LET r == clip_segment(sorted[i], env.fail_cut # i) IN
         IF r.error # ""
         THEN [st EXCEPT !.calls = @ \o r.calls, !.failed = i, !.cause = r.error]
         ELSE ClipLoop(sorted, i + 1,
                  [st EXCEPT !.calls = @ \o r.calls, !.clips = @ \o <<ClipOf(sorted[i])>>],
                  env)

\* the duration the success response reports
RECURSIVE TotalClipDuration(_)
TotalClipDuration(ms) ==
    IF ms = <<>> THEN 0 ELSE ClipOf(ms[1]).duration + TotalClipDuration(Tail(ms))

\* create_bestof_compilation; env holds what the external steps do:
\* fail_cut (index of the sorted moment whose ffmpeg cut fails, 0 for
\* none), copy_ok, probe ("ok", "failed" or "garbage"), xfade_ok, direct_ok.
\* Returns the response and the external steps invoked.
create_bestof_compilation(ms, crossfade, env) ==
    IF ms = <<>>
    THEN [response |-> [status |-> "error", error |-> "No moments provided"],
          calls |-> <<>>]
    ELSE
      LET sorted_moments == SortedMoments(ms)
          cut == ClipLoop(sorted_moments, 1,
                          [calls |-> <<>>, clips |-> <<>>, failed |-> 0, cause |-> ""], env)
      IN IF cut.failed # 0
         THEN [response |-> [status |-> "error", error |-> "Failed to clip segment",
                             segment |-> cut.failed, cause |-> cut.cause],
               calls |-> cut.calls]
         ELSE
           LET concat_result == concatenate_clips(cut.clips, crossfade, env) IN
           IF concat_result.error = "raised"
           THEN [response |-> [status |-> "error", error |-> "Error creating compilation"],
                 calls |-> cut.calls \o concat_result.calls]
           ELSE IF concat_result.error # ""
           THEN [response |-> [status |-> "error", error |-> concat_result.error],
                 calls |-> cut.calls \o concat_result.calls]
           ELSE [response |-> [status |-> "success",
                               video_data |-> concat_result.output,
                               total_duration_seconds |-> TotalClipDuration(sorted_moments),
                               num_clips |-> Len(sorted_moments),
                               clips_used |-> sorted_moments],
                 calls |-> cut.calls \o concat_result.calls]

\* the temporary files of a compilation that invoked the external steps
\* calls: mkdtemp makes the working directory; every cut writes a clip and
\* the copy, the blend and the concat write the compilation inside it;
\* _concatenate_direct makes a list file outside it and unlinks it in its
\* finally; the finally of create_bestof_compilation removes the directory
\* with all it holds
BestofFiles(ms, calls) ==
    IF ms = <<>> THEN Files({}, {})
    ELSE
      LET ran(op) == \E c \in 1..Len(calls) : calls[c].op = op
          cuts == Len(SelectSeq(calls, LAMBDA c : c.op = "cut"))
          clips == {TempFile("clip", i - 1) : i \in 1..cuts}
          output == IF ran("copy") \/ ran("concat_direct") \/ ran("xfade")
                    THEN {TempFile("compilation", 0)} ELSE {}
          list_file == IF ran("concat_direct") THEN {TempFile("concat_list", 0)} ELSE {}
          temp_dir == {TempFile("temp_dir", 0)} \cup clips \cup output
      IN Files(temp_dir \cup list_file, list_file \cup temp_dir)

(* ------------------------------ inputs --------------------------------- *)
\* a word's (start, end) with end >= start
WordTimes == {p \in (0..MaxTime) \X (0..MaxTime) : p[2] >= p[1]}

\* word sequences of up to MaxLen words, in any start order; the text of
\* the k-th word is the token k
WordSeqs ==
    UNION { { [k \in 1..n |-> [word |-> k, start |-> f[k][1], end |-> f[k][2]]] :
                f \in [1..n -> WordTimes] } : n \in 0..MaxLen }

\* timestamps "0:10", "0:40" and "0:01:00"
Timestamps == { <<0, 10>>, <<0, 40>>, <<0, 1, 0>> }

\* moments with any two timestamps and an order that may be absent
Moments ==
    [ start_time : Timestamps, end_time : Timestamps,
      order : (0..MaxOrder) \cup {None} ]

\* lists of up to MaxMoments moments
MomentSeqs == UNION { [1..n -> Moments] : n \in 0..MaxMoments }

Thresholds == (0..MaxThreshold) \cup {None}

\* caption options of the grouping specification
CaptionOptions == {DefaultOptions}

\* canvas heights of the style specification
Heights == {1080, 1920}

\* caption options of the style specification: every position_y in 0..100
StyleOptions ==
    { [DefaultOptions EXCEPT !.position_y = p, !.video_height = h] :
        p \in 0..100, h \in Heights }

\* max_text_width and min_size of create_caption_overlay_video
MaxTextWidth == 1000
OverlayMinSize == 32

\* widths the font library measures for a caption at the base size
MeasuredWidths == {800, 1200, 2400}

\* opacities of the background box, in and out of 0..100
Opacities == {-20, 0, 50, 80, 100, 150}

\* caption options of the overlay specification
OverlayOptions ==
    { [DefaultOptions EXCEPT !.font_size = f, !.highlight_scale = hs,
                             !.animation_style = a, !.outline_enabled = oe,
                             !.outline_width = ow, !.background_enabled = be,
                             !.background_opacity = op] :
        f \in {28, 56, 84}, hs \in {100, 130, 150},
        a \in {"scale", "color", "glow", "both"}, oe \in BOOLEAN, ow \in {3, 5},
        be \in BOOLEAN, op \in Opacities }

\* Scenario 1 of the specification: Hi(0.0-0.3) there(0.35-0.6) friend(1.5-1.9)
ScenarioWords ==
    << [word |-> 1, start |-> 0, end |-> 30],
       [word |-> 2, start |-> 35, end |-> 60],
       [word |-> 3, start |-> 150, end |-> 190] >>

\* arguments of calculate_fit_font_size; metrics is the width the font
\* library measures, or None when the font file cannot be loaded
FitArgs ==
    [ text_len : 0..MaxTextLen, metrics : {None} \cup (0..(MaxWidth + 1)),
      target_size : 1..MaxFontSize, max_width : 0..MaxWidth,
      min_size : 1..MaxFontSize ]

(* ------------------------------ actions -------------------------------- *)
NoResult == [error |-> "none", captions |-> <<>>]

NoAss == [lines |-> <<>>]

NoFitArgs ==
    [text_len |-> 0, metrics |-> None, target_size |-> 1, max_width |-> 0,
     min_size |-> 1]

\* no response yet
NoResponse == [status |-> "none"]

NoGaps == [computed |-> FALSE, list |-> <<>>]

\* no temporary file was created
NoFiles == [created |-> {}, left |-> {}]

\* the caption pipeline is not part of the behaviour
CaptionIdle ==
    /\ max_words_per_group = 1
    /\ silence_threshold = 0
    /\ caption_options = DefaultOptions
    /\ pc = "idle"
    /\ result = NoResult
    /\ ass = NoAss

\* no font fitting is part of the behaviour
FitIdle == fit_args = NoFitArgs /\ fitted_size = None

\* no silence removal is part of the behaviour
SilenceIdle ==
    /\ min_gap_duration = 0
    /\ padding = 0
    /\ video_duration = 0
    /\ gaps = NoGaps
    /\ segments = <<>>
    /\ gaps_removed = <<>>
    /\ rs_result = NoResponse
    /\ rs_calls = <<>>
    /\ rs_files = NoFiles

\* the paths of a request that wrote nothing yet
NoPaths == [input |-> None, ass |-> None, debug |-> FALSE, output |-> None]

\* no concurrent overlay request is part of the behaviour
RequestIdle ==
    /\ ov_pc = <<>>
    /\ ov_files = <<>>

\* no external call is part of the behaviour
CallIdle ==
    /\ ext_kind = "none"
    /\ ext_pc = "idle"
    /\ ext_service = "none"
    /\ ext_result = NoResponse

\* no compilation is part of the behaviour
BestofIdle ==
    /\ moments = <<>>
    /\ use_crossfade = FALSE
    /\ cb_result = NoResponse
    /\ cb_calls = <<>>
    /\ cb_files = NoFiles

Init ==
    /\ words \in WordSeqs
    /\ max_words_per_group \in 1..MaxGroupSize
    /\ silence_threshold \in Thresholds
    /\ caption_options \in CaptionOptions
    /\ pc = "transcribed"
    /\ result = NoResult
    /\ ass = NoAss
    /\ FitIdle /\ SilenceIdle /\ BestofIdle
    /\ RequestIdle /\ CallIdle

InitStyle ==
    /\ words = ScenarioWords
    /\ max_words_per_group \in 1..MaxGroupSize
    /\ silence_threshold = 50
    /\ caption_options \in StyleOptions
    /\ pc = "transcribed"
    /\ result = NoResult
    /\ ass = NoAss
    /\ FitIdle /\ SilenceIdle /\ BestofIdle
    /\ RequestIdle /\ CallIdle

\* font fitting: the arguments of one call of calculate_fit_font_size
InitFit ==
    /\ words = <<>>
    /\ CaptionIdle /\ SilenceIdle /\ BestofIdle
    /\ RequestIdle /\ CallIdle
    /\ fit_args \in FitArgs
    /\ fitted_size = None

\* silence removal and gap detection on the words the transcription
\* returns for a video of duration MaxTime
InitSilence ==
    /\ words \in WordSeqs
    /\ CaptionIdle /\ FitIdle /\ BestofIdle
    /\ RequestIdle /\ CallIdle
    /\ min_gap_duration \in 0..MaxMinGap
    /\ padding \in 0..MaxPadding
    /\ video_duration = MaxTime
    /\ gaps = NoGaps
    /\ segments = <<>>
    /\ gaps_removed = <<>>
    /\ rs_result = NoResponse
    /\ rs_calls = <<>>
    /\ rs_files = NoFiles

\* group_words_into_captions on the transcribed words
GroupWords ==
    /\ pc = "transcribed"
    /\ result' = group_words_into_captions(words, max_words_per_group, silence_threshold)
    /\ pc' = IF result'.error = "none" THEN "grouped" ELSE "failed"
    /\ UNCHANGED <<requestVars, callVars>>
    /\ UNCHANGED <<words, max_words_per_group, silence_threshold, caption_options, ass>>
    /\ UNCHANGED <<fitVars, silenceVars, bestofVars>>

\* generate_ass_subtitles on the caption groups
GenerateAss ==
    /\ pc = "grouped"
    /\ ass' = generate_ass_subtitles(result.captions, caption_options)
    /\ pc' = "rendered"
    /\ UNCHANGED <<requestVars, callVars>>
    /\ UNCHANGED <<words, max_words_per_group, silence_threshold, caption_options, result>>
    /\ UNCHANGED <<fitVars, silenceVars, bestofVars>>

Next == GroupWords \/ GenerateAss

\* caption overlay requests with any styling options
InitOverlay ==
    /\ words = ScenarioWords
    /\ max_words_per_group \in 1..MaxGroupSize
    /\ silence_threshold = 50
    /\ caption_options \in OverlayOptions
    /\ pc = "transcribed"
    /\ result = NoResult
    /\ ass = NoAss
    /\ FitIdle /\ SilenceIdle /\ BestofIdle
    /\ RequestIdle /\ CallIdle

\* create_caption_overlay_video up to the ASS track: every caption is
\* fitted to max_text_width, then generate_ass_subtitles gets the options
\* and the fitted sizes
CaptionOverlay ==
    /\ pc = "grouped"
    /\ \E widths \in [1..Len(result.captions) -> MeasuredWidths] :
          LET caption_font_sizes ==
                  [g \in 1..Len(result.captions) |->
                      calculate_fit_font_size(0, widths[g], caption_options.font_size,
                                              MaxTextWidth, OverlayMinSize)]
              opts == [caption_options EXCEPT !.caption_font_sizes = caption_font_sizes]
          IN /\ caption_options' = opts
             /\ ass' = generate_ass_subtitles(result.captions, opts)
    /\ pc' = "rendered"
    /\ UNCHANGED <<requestVars, callVars>>
    /\ UNCHANGED <<words, max_words_per_group, silence_threshold, result>>
    /\ UNCHANGED <<fitVars, silenceVars, bestofVars>>

NextOverlay == GroupWords \/ CaptionOverlay

SpecOverlay == InitOverlay /\ [][NextOverlay]_vars

Spec == Init /\ [][Next]_vars

SpecStyle == InitStyle /\ [][Next]_vars

\* one call of calculate_fit_font_size
FitFont ==
    /\ fitted_size = None
    /\ fitted_size' = calculate_fit_font_size(fit_args.text_len, fit_args.metrics,
                                              fit_args.target_size, fit_args.max_width,
                                              fit_args.min_size)
    /\ UNCHANGED <<requestVars, callVars>>
    /\ UNCHANGED <<words, captionVars, fit_args, silenceVars, bestofVars>>

NextFit == FitFont

SpecFit == InitFit /\ [][NextFit]_vars

\* what the external steps of one silence removal do
\* (a step that does not run, because an earlier one failed, has no outcome)
SilenceEnvs ==
    { env \in [ extract : {"ok", "failed", "raised"},
                transcribe : {"ok", "no_key", "failed"},
                fail_cut : 0..MaxLen, concat_ok : BOOLEAN ] :
        /\ env.extract # "ok" => env.transcribe = "ok"
        /\ (env.extract # "ok" \/ env.transcribe # "ok") => env.fail_cut = 0
        /\ (env.extract # "ok" \/ env.transcribe # "ok" \/ env.fail_cut # 0) => env.concat_ok }

\* detect_gaps on the transcribed words
DetectGaps ==
    /\ ~gaps.computed
    /\ gaps' = [computed |-> TRUE, list |-> detect_gaps(words, min_gap_duration)]
    /\ UNCHANGED <<requestVars, callVars>>
    /\ UNCHANGED <<words, captionVars, fitVars, bestofVars>>
    /\ UNCHANGED <<min_gap_duration, padding, video_duration, segments,
                   gaps_removed, rs_result, rs_calls, rs_files>>

\* one request of remove_silence_from_video
RemoveSilence ==
    /\ rs_result = NoResponse
    /\ \E env \in SilenceEnvs :
          LET r == remove_silence_from_video(words, min_gap_duration, padding, env) IN
          /\ rs_result' = r.response
          /\ rs_calls' = r.calls
          /\ segments' = r.built.segments
          /\ gaps_removed' = r.built.gaps_removed
          /\ rs_files' = r.files
    /\ UNCHANGED <<requestVars, callVars>>
    /\ UNCHANGED <<words, captionVars, fitVars, bestofVars>>
    /\ UNCHANGED <<min_gap_duration, padding, video_duration, gaps>>

NextSilence == DetectGaps \/ RemoveSilence

SpecSilence == InitSilence /\ [][NextSilence]_vars

\* a compilation request with any list of moments
InitBestof ==
    /\ words = <<>>
    /\ CaptionIdle /\ FitIdle /\ SilenceIdle
    /\ RequestIdle /\ CallIdle
    /\ moments \in MomentSeqs
    /\ use_crossfade \in BOOLEAN
    /\ cb_result = NoResponse
    /\ cb_calls = <<>>
    /\ cb_files = NoFiles

\* what the external steps of one compilation do
\* (a step that does not run, because an earlier one failed, has no outcome)
BestofEnvs ==
    { env \in [ fail_cut : 0..MaxMoments, copy_ok : BOOLEAN,
                probe : {"ok", "failed", "garbage"}, xfade_ok : BOOLEAN,
                direct_ok : BOOLEAN ] :
        /\ env.fail_cut # 0 => env.copy_ok
        /\ (env.fail_cut # 0 \/ ~env.copy_ok) => env.probe = "ok"
        /\ (env.fail_cut # 0 \/ ~env.copy_ok \/ env.probe = "garbage") =>
               env.xfade_ok /\ env.direct_ok }

\* one request of create_bestof_compilation
CreateBestofCompilation ==
    /\ cb_result = NoResponse
    /\ \E env \in BestofEnvs :
          LET r == create_bestof_compilation(moments, use_crossfade, env) IN
          /\ cb_result' = r.response
          /\ cb_calls' = r.calls
          /\ cb_files' = BestofFiles(moments, r.calls)
    /\ UNCHANGED <<requestVars, callVars>>
    /\ UNCHANGED <<words, captionVars, fitVars, silenceVars>>
    /\ UNCHANGED <<moments, use_crossfade>>

NextBestof == CreateBestofCompilation

SpecBestof == InitBestof /\ [][NextBestof]_vars

(* ------------- concurrent create_caption_overlay_video ----------------- *)
Requests == 1..NumRequests

\* names tempfile.NamedTemporaryFile can give
TempNames == 1..MaxTempNames

\* the path '/tmp/debug_captions.ass'
DebugPath == 0

\* the paths request r has written and not unlinked
Written(r) ==
    ({ov_files[r].input, ov_files[r].ass, ov_files[r].output} \ {None})
        \cup (IF ov_files[r].debug THEN {DebugPath} ELSE {})

\* NamedTemporaryFile creates a file under a name no existing file has
FreshNames == TempNames \ UNION {Written(r) : r \in Requests}

\* NumRequests requests arrive
InitConcurrent ==
    /\ words = <<>>
    /\ CaptionIdle /\ FitIdle /\ SilenceIdle /\ BestofIdle /\ CallIdle
    /\ ov_pc = [r \in Requests |-> "start"]
    /\ ov_files = [r \in Requests |-> NoPaths]

\* what every step of a request leaves alone
OverlayFrame == UNCHANGED <<words, captionVars, fitVars, silenceVars, bestofVars, callVars>>

\* the input video is written to a temporary file
WriteInput(r) ==
    /\ ov_pc[r] = "start"
    /\ \E n \in FreshNames : ov_files' = [ov_files EXCEPT ![r].input = n]
    /\ ov_pc' = [ov_pc EXCEPT ![r] = "input_written"]
    /\ OverlayFrame

\* the ASS track is written to a temporary file
WriteAss(r) ==
    /\ ov_pc[r] = "input_written"
    /\ \E n \in FreshNames : ov_files' = [ov_files EXCEPT ![r].ass = n]
    /\ ov_pc' = [ov_pc EXCEPT ![r] = "ass_written"]
    /\ OverlayFrame

\* a copy of the ASS track is written to the debug path
WriteDebug(r) ==
    /\ ov_pc[r] = "ass_written"
    /\ ov_files' = [ov_files EXCEPT ![r].debug = TRUE]
    /\ ov_pc' = [ov_pc EXCEPT ![r] = "debug_written"]
    /\ OverlayFrame

\* the temporary output file is created
CreateOutput(r) ==
    /\ ov_pc[r] = "debug_written"
    /\ \E n \in FreshNames : ov_files' = [ov_files EXCEPT ![r].output = n]
    /\ ov_pc' = [ov_pc EXCEPT ![r] = "output_created"]
    /\ OverlayFrame

\* ffmpeg burns the track in; the input and the ASS file are unlinked, and
\* the output file too when ffmpeg failed
RunFfmpeg(r) ==
    /\ ov_pc[r] = "output_created"
    /\ \E ok \in BOOLEAN :
          /\ ov_files' = [ov_files EXCEPT ![r].input = None, ![r].ass = None,
                                          ![r].output = IF ok THEN @ ELSE None]
          /\ ov_pc' = [ov_pc EXCEPT ![r] = IF ok THEN "overlaid" ELSE "done"]
    /\ OverlayFrame

\* the output is read and unlinked, and the request returns
ReadOutput(r) ==
    /\ ov_pc[r] = "overlaid"
    /\ ov_files' = [ov_files EXCEPT ![r].output = None]
    /\ ov_pc' = [ov_pc EXCEPT ![r] = "done"]
    /\ OverlayFrame

NextConcurrent ==
    \E r \in Requests :
        \/ WriteInput(r) \/ WriteAss(r) \/ WriteDebug(r)
        \/ CreateOutput(r) \/ RunFfmpeg(r) \/ ReadOutput(r)

SpecConcurrent == InitConcurrent /\ [][NextConcurrent]_vars

(* ---------------- blocking calls to external services ------------------ *)
\* a pipeline is about to call the transcription service
\* (transcribe_with_whisper) or the moment detection (detect_highlight_moments)
InitCalls ==
    /\ words = <<>>
    /\ CaptionIdle /\ FitIdle /\ SilenceIdle /\ BestofIdle /\ RequestIdle
    /\ ext_kind \in {"transcribe", "detect"}
    /\ ext_pc = "start"
    /\ ext_service = "none"
    /\ ext_result = NoResponse

\* what every step of a call leaves alone
CallFrame == UNCHANGED <<captionVars, fitVars, silenceVars, bestofVars, requestVars>>

\* the credential is looked up; without it the error is returned, with it
\* the request is sent without a timeout and the pipeline blocks until the
\* client library returns or raises; the service answers, fails or stays
\* silent
IssueCall ==
    /\ ext_pc = "start"
    /\ \E key \in BOOLEAN :
          IF ~key
          THEN /\ ext_pc' = "returned"
               /\ ext_result' = [status |-> "error",
                                 error |-> IF ext_kind = "transcribe"
                                           THEN "OPENAI_API_KEY not configured"
                                           ELSE "GEMINI_API_KEY not configured"]
               /\ UNCHANGED ext_service
          ELSE /\ ext_pc' = "waiting"
               /\ ext_service' \in {"answers", "raises", "silent"}
               /\ UNCHANGED ext_result
    /\ UNCHANGED <<words, ext_kind>>
    /\ CallFrame

\* the service answers: the words of the transcription, or the moments
\* (sorted by order) or a text that is not JSON
ServiceAnswers ==
    /\ ext_pc = "waiting" /\ ext_service = "answers"
    /\ IF ext_kind = "transcribe"
       THEN /\ words' \in WordSeqs
            /\ ext_result' = [status |-> "success"]
       ELSE /\ UNCHANGED words
            /\ \/ \E ms \in MomentSeqs :
                     ext_result' = [status |-> "success", moments |-> SortedMoments(ms)]
               \/ ext_result' = [status |-> "error",
                                 error |-> "Failed to parse AI response as JSON"]
    /\ ext_pc' = "returned"
    /\ UNCHANGED <<ext_kind, ext_service>>
    /\ CallFrame

\* the client library raises
ServiceRaises ==
    /\ ext_pc = "waiting" /\ ext_service = "raises"
    /\ ext_result' = [status |-> "error",
                      error |-> IF ext_kind = "transcribe"
                                THEN "Whisper transcription failed"
                                ELSE "Error detecting highlights"]
    /\ ext_pc' = "returned"
    /\ UNCHANGED <<words, ext_kind, ext_service>>
    /\ CallFrame

NextCalls == IssueCall \/ ServiceAnswers \/ ServiceRaises

SpecCalls == InitCalls /\ [][NextCalls]_vars

\* every step the pipeline or the client library can take is taken
SpecCallsLive == SpecCalls /\ WF_vars(NextCalls)

(* ------------------------- properties: helpers ------------------------- *)
\* the grouping returned a list of caption groups
Returned == pc \in {"grouped", "rendered"}

\* a caption word without its group-local index
PlainWord(w) == [word |-> w.word, start |-> w.start, end |-> w.end]

\* the words of the groups g.. of caps, concatenated in order
RECURSIVE FlattenGroups(_, _)
FlattenGroups(caps, g) ==
    IF g > Len(caps) THEN <<>>
    ELSE [k \in 1..Len(caps[g].words) |-> PlainWord(caps[g].words[k])]
           \o FlattenGroups(caps, g + 1)

\* number of words in the groups before group g
RECURSIVE Offset(_, _)
Offset(caps, g) == IF g <= 1 THEN 0 ELSE Offset(caps, g - 1) + Len(caps[g - 1].words)

\* the group holding the k-th word of the concatenation
GroupOf(caps, k) ==
    CHOOSE g \in 1..Len(caps) : Offset(caps, g) < k /\ k <= Offset(caps, g) + Len(caps[g].words)

\* gap between input word i and input word i+1
Gap(i) == words[i + 1].start - words[i].end

\* the silence rule applies between input words i and i+1
SilentAfter(i) == silence_threshold # None /\ Gap(i) > silence_threshold

(* ------------------------------- C1 ------------------------------------ *)
\* C1: the groups returned by group_words_by_temporal_proximity,
\* concatenated in order, are exactly the input word sequence: no word is
\* dropped, duplicated or reordered.
C1_Partition == Returned => FlattenGroups(result.captions, 1) = words

\* a three-word input split into a group of two words and another group
C1_Witness ==
    /\ Returned
    /\ Len(words) >= 3
    /\ Len(result.captions) >= 2
    /\ \E g \in 1..Len(result.captions) : Len(result.captions[g].words) >= 2
    /\ \E i \in 1..(Len(words) - 1) : SilentAfter(i)

(* ------------------------------- C2 ------------------------------------ *)
\* C2: two consecutive input words separated by a gap greater than
\* silence_threshold are never placed in the same group.
C2_SilenceBreak ==
    Returned =>
        \A i \in 1..(Len(words) - 1) :
            SilentAfter(i) => GroupOf(result.captions, i) # GroupOf(result.captions, i + 1)

\* a silence gap closes a group that is not yet full
C2_Witness ==
    /\ Returned
    /\ \E i \in 1..(Len(words) - 1) :
          /\ SilentAfter(i)
          /\ Len(result.captions[GroupOf(result.captions, i)].words) < max_words_per_group

(* ------------------------------- C3 ------------------------------------ *)
\* C3: every returned group holds at least 1 and at most
\* max_words_per_group words, also when the silence rule and the size cap
\* fire on the same word.
C3_SizeBound ==
    Returned =>
        \A g \in 1..Len(result.captions) :
            /\ Len(result.captions[g].words) >= 1
            /\ Len(result.captions[g].words) <= max_words_per_group

\* a group is full and the next word comes after a silence gap
C3_Witness ==
    /\ Returned
    /\ \E i \in 1..(Len(words) - 1) :
          /\ SilentAfter(i)
          /\ GroupOf(result.captions, i) # GroupOf(result.captions, i + 1)
          /\ Offset(result.captions, GroupOf(result.captions, i) + 1) = i
          /\ Len(result.captions[GroupOf(result.captions, i)].words) = max_words_per_group

(* ------------------------------- C4 ------------------------------------ *)
\* C4: with silence_threshold None and at least two words the grouping
\* completes without error and the groups are purely size-bounded: every
\* group except the last holds exactly max_words_per_group words.
C4_NoneThreshold ==
    (pc # "transcribed" /\ silence_threshold = None /\ Len(words) >= 2) =>
        /\ Returned
        /\ result.error = "none"
        /\ \A g \in 1..(Len(result.captions) - 1) :
              Len(result.captions[g].words) = max_words_per_group

(* ------------------------------- C5 ------------------------------------ *)
\* the Word invariants: end >= start, starts non-decreasing
WordInvariants ==
    /\ \A i \in 1..Len(words) : words[i].end >= words[i].start
    /\ \A i \in 1..(Len(words) - 1) : words[i].start <= words[i + 1].start

\* no word ends after the next word starts
WordsDisjoint == \A i \in 1..(Len(words) - 1) : words[i].end <= words[i + 1].start

\* a group starts with its first word and ends with its last word
GroupSpan(c) == c.start = c.words[1].start /\ c.end = c.words[Len(c.words)].end

\* C5 as stated: for every word sequence satisfying the Word invariants,
\* adjacent groups satisfy group[i].end <= group[i+1].words[0].start.
C5_Original ==
    (Returned /\ WordInvariants) =>
        \A g \in 1..(Len(result.captions) - 1) :
            /\ GroupSpan(result.captions[g])
            /\ result.captions[g].end <= result.captions[g + 1].words[1].start

\* C5 amended: for every word sequence satisfying the Word invariants in
\* which no word ends after the next word starts, each group spans from its
\* first word's start to its last word's end and adjacent groups satisfy
\* group[i].end <= group[i+1].words[0].start.
C5_Amended ==
    (Returned /\ WordInvariants /\ WordsDisjoint) =>
        \A g \in 1..Len(result.captions) :
            /\ GroupSpan(result.captions[g])
            /\ g < Len(result.captions) =>
                  result.captions[g].end <= result.captions[g + 1].words[1].start

\* disjoint words, a group of two words with different ends, and a group
\* that ends exactly where the next one starts
C5_Witness ==
    /\ Returned /\ WordInvariants /\ WordsDisjoint
    /\ \E g \in 1..(Len(result.captions) - 1) :
          /\ Len(result.captions[g].words) >= 2
          /\ result.captions[g].words[1].end < result.captions[g].end
          /\ result.captions[g].end = result.captions[g + 1].start

(* ------------------------------- C6 ------------------------------------ *)
\* the time an ASS reader takes from a H:MM:SS.cc field, in centiseconds
AssTimeValue(ft) == ft.hours * 360000 + ft.minutes * 6000 + ft.secs

\* C6: generate_ass_subtitles emits exactly one Dialogue line per word of
\* every caption group, in group and word order, each showing the whole
\* group; the line of word i starts at word[i].start and ends at
\* word[i+1].start, or at group.end for the last word of the group.
C6_LineTiming ==
    pc = "rendered" =>
        LET caps == result.captions IN
        /\ Len(ass.lines) = Offset(caps, Len(caps) + 1)
        /\ \A g \in 1..Len(caps) : \A i \in 1..Len(caps[g].words) :
              LET ln == ass.lines[Offset(caps, g) + i] IN
              /\ Len(ln.text) = Len(caps[g].words)
              /\ \A j \in 1..Len(ln.text) : ln.text[j].word.text = caps[g].words[j].word
              /\ AssTimeValue(ln.start) = caps[g].words[i].start
              /\ AssTimeValue(ln.end) =
                    IF i < Len(caps[g].words) THEN caps[g].words[i + 1].start
                                              ELSE caps[g].end

\* two groups rendered, one with a word that ends before the next one starts
C6_Witness ==
    /\ pc = "rendered"
    /\ Len(result.captions) >= 2
    /\ \E g \in 1..Len(result.captions) :
          /\ Len(result.captions[g].words) >= 2
          /\ result.captions[g].words[1].end < result.captions[g].words[2].start

(* ------------------------------- C7 ------------------------------------ *)
\* starts of the input words are non-decreasing
WordsSorted == \A i \in 1..(Len(words) - 1) : words[i].start <= words[i + 1].start

\* C7: for groups made from a word sequence with non-decreasing starts, the
\* Dialogue lines appear in non-decreasing start-time order over the track.
C7_LineOrdering ==
    (pc = "rendered" /\ WordsSorted) =>
        \A k \in 1..(Len(ass.lines) - 1) :
            AssTimeValue(ass.lines[k].start) <= AssTimeValue(ass.lines[k + 1].start)

\* three lines over two groups with increasing starts
C7_Witness ==
    /\ pc = "rendered" /\ WordsSorted
    /\ Len(result.captions) >= 2
    /\ Len(ass.lines) >= 3
    /\ \A k \in 1..(Len(ass.lines) - 1) :
          AssTimeValue(ass.lines[k].start) < AssTimeValue(ass.lines[k + 1].start)

(* ------------------------------- C8 ------------------------------------ *)
\* every line has end >= start and ends before the next line starts
LinesDisjoint ==
    /\ \A k \in 1..Len(ass.lines) :
          AssTimeValue(ass.lines[k].end) >= AssTimeValue(ass.lines[k].start)
    /\ \A k \in 1..(Len(ass.lines) - 1) :
          AssTimeValue(ass.lines[k].end) <= AssTimeValue(ass.lines[k + 1].start)

\* C8 as stated: for every word sequence satisfying the Word invariants the
\* emitted lines never overlap in time, within a group and across groups.
C8_Original == (pc = "rendered" /\ WordInvariants) => LinesDisjoint

\* C8 amended: for every word sequence satisfying the Word invariants in
\* which no word ends after the next word starts, every emitted line has
\* end >= start and every two consecutive lines satisfy
\* line[k].end <= line[k+1].start, within a group and across groups.
C8_Amended == (pc = "rendered" /\ WordInvariants /\ WordsDisjoint) => LinesDisjoint

\* disjoint words rendered as two groups, the first of at least two words
\* with distinct starts and ending after its second word starts
C8_Witness ==
    /\ pc = "rendered" /\ WordInvariants /\ WordsDisjoint
    /\ Len(result.captions) >= 2
    /\ Len(result.captions[1].words) >= 2
    /\ result.captions[1].words[2].start < result.captions[1].end

(* ------------------------------- C10 ----------------------------------- *)
\* m is x/100 in whole pixels (the fraction dropped)
WholePixels(m, x) == m * 100 <= x /\ x < (m + 1) * 100

\* C10: top alignment (8) with margin pct/100*h when pct <= 33, middle
\* alignment (5) with margin 0 when 33 < pct <= 66, bottom alignment (2)
\* with margin (100-pct)/100*h when pct > 66; margins in whole pixels.
C10_PositionTrichotomy ==
    pc = "rendered" =>
        LET pct == caption_options.position_y
            h   == caption_options.video_height
            st  == ass.default_style
        IN /\ pct <= 33 => st.alignment = 8 /\ WholePixels(st.margin_v, pct * h)
           /\ (33 < pct /\ pct <= 66) => st.alignment = 5 /\ st.margin_v = 0
           /\ pct > 66 => st.alignment = 2 /\ WholePixels(st.margin_v, (100 - pct) * h)
           /\ ass.highlight_style.alignment = st.alignment
           /\ ass.highlight_style.margin_v = st.margin_v

\* Scenario 5: position 85 on a 1920 canvas gives bottom alignment, margin 288
C10_Witness ==
    /\ pc = "rendered"
    /\ caption_options.position_y = 85
    /\ caption_options.video_height = 1920
    /\ ass.default_style.alignment = 2
    /\ ass.default_style.margin_v = 288

(* ------------------------------- C11 ----------------------------------- *)
\* the width measured for the text at the target size
FitWidth == measure_text_width(fit_args.text_len, fit_args.metrics, fit_args.target_size)

QualifyingPairs ==
    {i \in 1..(Len(words) - 1) :
        words[i + 1].start - words[i].end >= min_gap_duration}

\* the k-th qualifying pair in word order
NthPair(k) ==
    CHOOSE i \in QualifyingPairs : Cardinality({j \in QualifyingPairs : j <= i}) = k

\* C12: detect_gaps returns, in word order, exactly one Gap for each
\* consecutive pair with words[i+1].start - words[i].end >= min_gap_duration
\* and none for any other pair; each Gap has start = words[i].end,
\* end = words[i+1].start and duration = end - start >= min_gap_duration;
\* fewer than 2 words yield no gaps.
C12_GapDetection ==
    gaps.computed =>
        /\ Len(gaps.list) = Cardinality(QualifyingPairs)
        /\ \A k \in 1..Len(gaps.list) :
              LET i == NthPair(k) IN
              /\ gaps.list[k].start = words[i].end
              /\ gaps.list[k].end = words[i + 1].start
              /\ gaps.list[k].duration = gaps.list[k].end - gaps.list[k].start
              /\ gaps.list[k].duration >= min_gap_duration
        /\ Len(words) < 2 => gaps.list = <<>>

\* three words, the first gap equal to min_gap_duration and reported, the
\* second one shorter and not reported
C12_Witness ==
    /\ gaps.computed
    /\ Len(words) >= 3
    /\ min_gap_duration > 0
    /\ words[2].start - words[1].end = min_gap_duration
    /\ words[3].start - words[2].end < min_gap_duration
    /\ Len(gaps.list) = 1

(* ------------------------------- C13 ----------------------------------- *)
\* remove_silence_from_video has returned
SilenceDone == rs_result # NoResponse

\* C13: for every word sequence satisfying the Word invariants, every
\* min_gap_duration > 0 and every padding >= 0, the segments are in
\* increasing start order and segment[k].end <= segment[k+1].start.
C13_SegmentsDisjoint ==
    (SilenceDone /\ WordInvariants /\ min_gap_duration > 0) =>
        \A k \in 1..(Len(segments) - 1) :
            /\ segments[k].start < segments[k + 1].start
            /\ segments[k].end <= segments[k + 1].start

(* ------------------------------- C14 ----------------------------------- *)
\* the interval [w.start, w.end] lies in the union of the segments
Covered(w) ==
    /\ \E k \in 1..Len(segments) :
          segments[k].start <= w.start /\ w.start <= segments[k].end
    /\ \A t \in w.start..(w.end - 1) :
          \E k \in 1..Len(segments) :
              segments[k].start <= t /\ t + 1 <= segments[k].end

\* C14: for every word sequence satisfying the Word invariants, also with
\* overlapping or nested words, every word's interval is contained in the
\* union of the segments built by remove_silence_from_video.
C14_AllSpeechKept ==
    (SilenceDone /\ WordInvariants /\ segments # <<>>) =>
        \A i \in 1..Len(words) : Covered(words[i])

(* ------------------------------- C15 ----------------------------------- *)
\* C15: every kept segment has end > start, and so every cut is requested
\* with a positive duration, also for zero-length words with zero padding.
C15_SegmentPositive ==
    SilenceDone =>
        /\ \A k \in 1..Len(segments) : segments[k].end > segments[k].start
        /\ \A c \in 1..Len(rs_calls) :
              rs_calls[c].op = "cut" => rs_calls[c].duration > 0

(* ------------------------------- C16 ----------------------------------- *)
\* C16: every kept segment lies within [0, track_duration].
C16_SegmentClamped ==
    SilenceDone =>
        \A k \in 1..Len(segments) :
            segments[k].start >= 0 /\ segments[k].end <= video_duration

(* ------------------------------- C17 ----------------------------------- *)
\* the transcription was obtained
Transcribed == SilenceDone /\ \E c \in 1..Len(rs_calls) : rs_calls[c].op = "transcribe"

\* the response is an error of the extraction or of the transcription
TranscriptionError ==
    /\ rs_result.status = "error"
    /\ rs_result.error \in {"Audio extraction failed", "Error extracting audio",
                            "OPENAI_API_KEY not configured",
                            "Whisper transcription failed"}

\* C17: when the transcription has no words, or no gap between consecutive
\* words qualifies, remove_silence_from_video returns success with
\* silence_removed false and the input video, and invokes no cut and no
\* concatenation.
C17_NoOpSuccess ==
    (SilenceDone /\ ~TranscriptionError /\ (words = <<>> \/ QualifyingPairs = {})) =>
        /\ rs_result.status = "success"
        /\ rs_result.silence_removed = FALSE
        /\ rs_result.video_data = OriginalVideo
        /\ \A c \in 1..Len(rs_calls) : rs_calls[c].op \notin {"cut", "concat"}

\* two words with a positive gap below min_gap_duration: nothing is cut
C17_Witness ==
    /\ SilenceDone /\ Transcribed /\ ~TranscriptionError
    /\ Len(words) >= 2
    /\ QualifyingPairs = {}
    /\ \E i \in 1..(Len(words) - 1) : words[i + 1].start - words[i].end > 0
    /\ rs_result.status = "success"
    /\ rs_result.silence_removed = FALSE

(* ------------------------------- C18 ----------------------------------- *)
\* create_bestof_compilation has returned
BestofDone == cb_result # NoResponse

\* the cuts requested, in the order of the requests
CutsRequested == SelectSeq(cb_calls, LAMBDA c : c.op = "cut")

\* the order x.get('order', 0) of the i-th moment supplied
SuppliedOrder(i) == IF moments[i].order = None THEN 0 ELSE moments[i].order

\* the positions of the supplied moments by non-decreasing order, moments
\* of equal order in input order
StableOrder ==
    CHOOSE p \in [1..Len(moments) -> 1..Len(moments)] :
        \A a, b \in 1..Len(moments) :
            a < b => \/ SuppliedOrder(p[a]) < SuppliedOrder(p[b])
                     \/ SuppliedOrder(p[a]) = SuppliedOrder(p[b]) /\ p[a] < p[b]

\* start and duration in seconds of the i-th moment supplied
SuppliedClip(i) ==
    LET secs(t) == IF Len(t) = 2 THEN 60 * t[1] + t[2] ELSE 3600 * t[1] + 60 * t[2] + t[3]
    IN [start |-> secs(moments[i].start_time),
        duration |-> secs(moments[i].end_time) - secs(moments[i].start_time)]

\* C18: for every non-empty list of moments the cuts are requested in
\* non-decreasing order (equal orders in input order), one cut per moment,
\* and a successful compilation has cut every moment once and reports
\* num_clips = number of moments, duplicates and overlaps included.
C18_CompilationOrder ==
    (BestofDone /\ moments # <<>>) =>
        /\ Len(CutsRequested) <= Len(moments)
        /\ \A k \in 1..Len(CutsRequested) :
              /\ CutsRequested[k].start = SuppliedClip(StableOrder[k]).start
              /\ CutsRequested[k].duration = SuppliedClip(StableOrder[k]).duration
        /\ cb_result.status = "success" =>
              /\ Len(CutsRequested) = Len(moments)
              /\ cb_result.num_clips = Len(moments)

\* two overlapping moments of equal order, one of them without an order,
\* compiled successfully in input order
C18_Witness ==
    /\ BestofDone
    /\ Len(moments) = 2
    /\ moments[1].order = 0 /\ moments[2].order = None
    /\ SuppliedClip(1).start > SuppliedClip(2).start
    /\ SuppliedClip(1).start < SuppliedClip(2).start + SuppliedClip(2).duration
    /\ cb_result.status = "success"
    /\ cb_result.num_clips = 2

(* ------------------------------- C19 ----------------------------------- *)
\* C19: with exactly one moment no concatenation, direct or crossfade, is
\* invoked whatever use_crossfade is, and the video returned is the single
\* cut unmodified.
C19_SingleSegment ==
    (BestofDone /\ Len(moments) = 1) =>
        /\ \A c \in 1..Len(cb_calls) :
              cb_calls[c].op \notin {"concat_direct", "xfade", "probe"}
        /\ cb_result.status = "success" =>
              cb_result.video_data = [kind |-> "cut", parts |-> <<SuppliedClip(1)>>]

\* one moment compiled successfully with use_crossfade set
C19_Witness ==
    /\ BestofDone
    /\ Len(moments) = 1
    /\ use_crossfade
    /\ cb_result.status = "success"
    /\ Len(CutsRequested) = 1

(* ------------------------------- C20 ----------------------------------- *)
\* the k-th sorted moment is refused by clip_segment before ffmpeg runs
Refused(k) == SuppliedClip(StableOrder[k]).duration <= 0

\* the cut of the k-th sorted moment was attempted and failed: the k-1
\* cuts before it succeeded, and it was refused or its ffmpeg cut failed
CutFailed(k) ==
    /\ Len(CutsRequested) >= k - 1
    /\ \A j \in 1..(k - 1) : CutsRequested[j].outcome = "ok"
    /\ \/ Len(CutsRequested) = k - 1 /\ Refused(k)
       \/ Len(CutsRequested) >= k /\ CutsRequested[k].outcome = "failed"

\* every moment was cut and the concatenation that ran last failed
ConcatFailed ==
    /\ Len(CutsRequested) = Len(moments)
    /\ \A k \in 1..Len(CutsRequested) : CutsRequested[k].outcome = "ok"
    /\ \/ cb_calls[Len(cb_calls)].op = "concat_direct"
          /\ cb_calls[Len(cb_calls)].outcome = "failed"
       \/ cb_calls[Len(cb_calls)].op = "probe"
          /\ cb_calls[Len(cb_calls)].outcome = "garbage"

\* C20: if the cut of the k-th sorted moment fails, the result is an error
\* naming segment k, no later cut and no concatenation is invoked and no
\* success is returned; if every cut succeeds and the concatenation fails,
\* the result is the concatenation error.
C20_FailureSurfaced ==
    (BestofDone /\ moments # <<>>) =>
        /\ \A k \in 1..Len(moments) :
              CutFailed(k) =>
                  /\ cb_result.status = "error"
                  /\ cb_result.error = "Failed to clip segment"
                  /\ cb_result.segment = k
                  /\ Len(CutsRequested) <= k
                  /\ \A c \in 1..Len(cb_calls) : cb_calls[c].op = "cut"
        /\ ConcatFailed =>
              /\ cb_result.status = "error"
              /\ cb_result.error \in {"ffmpeg concat error", "Error concatenating clips"}

\* the second of two cuts fails after the first succeeded
C20_Witness ==
    /\ BestofDone
    /\ Len(moments) = 2
    /\ Len(CutsRequested) = 2
    /\ CutsRequested[1].outcome = "ok"
    /\ CutsRequested[2].outcome = "failed"
    /\ cb_result.status = "error"
    /\ cb_result.segment = 2

(* ------------------------------- C21 ----------------------------------- *)
\* C21: when remove_silence_from_video (its audio extraction included) or
\* create_bestof_compilation has returned, by whatever path, none of the
\* temporary files or directories it created still exists.
C21_ScopedCleanup ==
    /\ SilenceDone => rs_files.left = {}
    /\ BestofDone => cb_files.left = {}

(* ------------------------------- C23 ----------------------------------- *)
\* C23: when OPENAI_API_KEY is not configured, remove_silence_from_video
\* returns the configuration error without having created a temporary
\* file and without having invoked an external extraction step.
C23_CredentialFirst ==
    (SilenceDone /\ rs_result.status = "error"
        /\ rs_result.error = "OPENAI_API_KEY not configured") =>
        /\ rs_files.created = {}
        /\ rs_calls = <<>>

(* ------------------------------- C25 ----------------------------------- *)
\* C25: remove_silence_from_video opens a new segment between word i and
\* word i+1 exactly when detect_gaps records a Gap for the pair (gap >=
\* threshold, equality included), so gaps_removed is the detector's list
\* and there is one segment more than there are gaps.
C25_SplitAgreesWithGaps ==
    (SilenceDone /\ gaps.computed /\ segments # <<>>) =>
        /\ gaps_removed = gaps.list
        /\ Len(segments) = Len(gaps.list) + 1

(* ------------------------------- C26 ----------------------------------- *)
\* every moment was cut
AllCut ==
    /\ Len(CutsRequested) = Len(moments)
    /\ \A k \in 1..Len(CutsRequested) : CutsRequested[k].outcome = "ok"

\* the blended path failed: the blend command returned an error, or a
\* probe failed or answered something that is not a duration
BlendFailed ==
    \E c \in 1..Len(cb_calls) :
        \/ cb_calls[c].op = "xfade" /\ cb_calls[c].outcome = "failed"
        \/ cb_calls[c].op = "probe" /\ cb_calls[c].outcome \in {"failed", "garbage"}

\* C26: with use_crossfade and at least two clips, whenever the blended
\* path fails for any reason the straight concatenation of the same clips
\* is attempted and its result is the result of the request, which fails
\* only if the straight concatenation fails too.
C26_CrossfadeFallback ==
    (BestofDone /\ use_crossfade /\ Len(moments) >= 2 /\ AllCut /\ BlendFailed) =>
        LET last == cb_calls[Len(cb_calls)] IN
        /\ last.op = "concat_direct"
        /\ last.duration = Len(moments)
        /\ cb_result.status = "success" <=> last.outcome = "ok"
        /\ cb_result.status = "success" => cb_result.video_data.kind = "concat"

(* ------------------------------- C27 ----------------------------------- *)
\* the fitted font size of caption g (1-based) of a rendered overlay
FittedSize(g) == caption_options.caption_font_sizes[g]

\* C27: with the outline enabled, the outline width used for a caption is
\* max(outline_width, fitted size / 14) of that caption's fitted font
\* size, not of the base font size; with the outline disabled it is 0.
\* (Every Dialogue line uses the Default style and overrides no border.)
C27_OutlineFollowsFit ==
    pc = "rendered" =>
        \A g \in 1..Len(result.captions) :
            ass.default_style.outline =
                IF caption_options.outline_enabled
                THEN Max2(caption_options.outline_width, FittedSize(g) \div 14)
                ELSE 0

(* ------------------------------- C28 ----------------------------------- *)
\* the size at which a text part is rendered, in hundredths of a pixel:
\* its \fs size scaled by its \fscx / \fscy percentage
EffectiveSize(part) == part.fs * part.fscx

\* C28: with animation 'scale' or 'both', the active word of every line is
\* rendered at fitted size * highlight_scale (the fitted size enlarged
\* once, the fraction of a pixel dropped), every other word at the fitted
\* size.
C28_HighlightSize ==
    (pc = "rendered" /\ caption_options.animation_style \in {"scale", "both"}) =>
        LET caps == result.captions IN
        \A g \in 1..Len(caps) : \A i \in 1..Len(caps[g].words) :
            LET ln == ass.lines[Offset(caps, g) + i] IN
            \A j \in 1..Len(ln.text) :
                IF j = i
                THEN EffectiveSize(ln.text[j]) \div 100
                        = (FittedSize(g) * caption_options.highlight_scale) \div 100
                ELSE EffectiveSize(ln.text[j]) = FittedSize(g) * 100

(* ------------------------------- C29 ----------------------------------- *)
\* clamp(opacity, 0, 100)
ClampOpacity(opacity) == IF opacity < 0 THEN 0 ELSE IF opacity > 100 THEN 100 ELSE opacity

\* C29: for every background_opacity, also below 0 or above 100, the
\* background alpha is an integer in 0..255, equal to
\* 255 * (1 - clamp(opacity, 0, 100)/100) truncated.
C29_OpacityClamped ==
    (pc = "rendered" /\ caption_options.background_enabled) =>
        /\ ass.default_style.back_alpha \in 0..255
        /\ ass.default_style.back_alpha =
              (255 * (100 - ClampOpacity(caption_options.background_opacity))) \div 100

(* ------------------------------- C30 ----------------------------------- *)
\* the gap between the last word of group g and the first word of group g+1
GapAfterGroup(caps, g) ==
    caps[g + 1].words[1].start - caps[g].words[Len(caps[g].words)].end

\* C30: every group but the last holds exactly max_words_per_group words
\* or is followed by a gap greater than silence_threshold; no group is
\* closed early for another reason.
C30_GreedyMaximality ==
    Returned =>
        LET caps == result.captions IN
        \A g \in 1..(Len(caps) - 1) :
            \/ Len(caps[g].words) = max_words_per_group
            \/ silence_threshold # None /\ GapAfterGroup(caps, g) > silence_threshold

\* two words a threshold apart stay in one group, which a later silence
\* closes before it is full
C30_Witness ==
    /\ Returned
    /\ silence_threshold # None /\ silence_threshold > 0
    /\ Len(result.captions) = 2
    /\ Len(result.captions[1].words) = 2
    /\ max_words_per_group > 2
    /\ Gap(1) = silence_threshold
    /\ GapAfterGroup(result.captions, 1) > silence_threshold

(* ------------------------------- C22 ----------------------------------- *)
\* request r has started and not returned
Running(r) == ov_pc[r] \notin {"start", "done"}

\* C22: two caption overlay requests running concurrently write disjoint
\* sets of paths, so neither overwrites or reads a file of the other.
C22_RequestScopedPaths ==
    \A r1, r2 \in Requests :
        (r1 # r2 /\ Running(r1) /\ Running(r2)) => Written(r1) \cap Written(r2) = {}

(* ------------------------------- C24 ----------------------------------- *)
\* C24: every call returns; when the transcription or the moment detection
\* never answers, the pipeline returns (a timeout error) instead of
\* waiting forever.
C24_BoundedCalls == <>(ext_pc = "returned")

====
